---- MODULE Spec2Model ----
(***************************************************************************)
(* A model of orion's SHA-384 streaming state (hazardous/hash/sha2/sha384), *)
(* of the password-hash envelope (pwhash) and of the utilities they use.    *)
(*                                                                          *)
(* Representation.                                                          *)
(*  - A u64 is four 16-bit limbs, least significant first, so that the      *)
(*    64-bit wrap-around and the carry of the message-length counter are    *)
(*    computed at their real width.                                         *)
(*  - Arrays keep Rust's 0-based indices (functions over 0..n-1); slices    *)
(*    passed as data are sequences.                                         *)
(*  - The SHA-512 compression kernel is a free (injective) function: the    *)
(*    chaining value is the initial value and the list of the blocks        *)
(*    compressed so far. Two chaining values are equal in the model exactly *)
(*    when the same blocks were compressed in the same order.               *)
(***************************************************************************)
EXTENDS Integers, Sequences, FiniteSets, TLC

VARIABLES
    state,        \* the Sha384 struct: working_state, buffer, leftover, message_len, is_finalized
                  \* (and panic: a call on it panicked, the struct is gone)
    prev,         \* history: the struct as it was when the last operation was called
    op,           \* the last Sha384 operation called
    ret,          \* what it returned: "Ok", "Err" (UnknownCryptoError), "panic"
    digest_out,   \* the Digest returned by the last successful finalize()
    absorbed,     \* history: the bytes of the update() calls that returned Ok since new()/reset()
    calls,        \* history: update() calls since new()/reset()
    ok_finalizes, \* history: finalize() calls that returned Ok since new()/reset()
    hashed_bits,  \* history: bits handed to accepted update() calls, an unbounded number (limbs)
    pw_op,        \* the last pwhash function called
    hp_password,  \* hash_password: its argument
    hp_rng,       \* hash_password: what the OS RNG did in the call
    hp_ret,       \* hash_password: "Ok", "Err" or "panic"
    envelope,     \* hash_password: the array it returned
    hp_derived,   \* history: the arguments of the key derivation hash_password made
    v_expected,   \* verify_password_hash: its argument expected_hash
    v_password,   \* verify_password_hash: its argument password
    v_ret,        \* verify_password_hash: what it returned
    v_derived,    \* history: the arguments of the key derivations the call made
    v_compared,   \* history: the constant-time comparisons the call made
    u_op,         \* the last util function called (the variables of the other one are cleared)
    ct_a,         \* compare_ct: its argument a
    ct_b,         \* compare_ct: its argument b
    ct_ret,       \* compare_ct: what it returned
    rk_len,       \* gen_rand_key: the length of its argument dst
    rk_rng,       \* gen_rand_key: what the OS RNG did (or would have done) in the call
    rk_out        \* gen_rand_key: what it returned, the bytes in dst, whether the RNG was consulted

sha_vars == <<state, prev, op, ret, digest_out, absorbed, calls, ok_finalizes, hashed_bits>>

pw_vars == <<pw_op, hp_password, hp_rng, hp_ret, envelope, hp_derived,
             v_expected, v_password, v_ret, v_derived, v_compared>>

util_vars == <<u_op, ct_a, ct_b, ct_ret, rk_len, rk_rng, rk_out>>

vars == <<sha_vars, pw_vars, util_vars>>

----------------------------------------------------------------------------
(* Bounds of the model *)

\* update() calls modelled between two new()/reset() points
MaxUpdates == 3

\* length of the slices of every content handed to compare_ct
MaxCtLen == 2

\* direct increment_mlen() calls modelled on one state
MaxIncrements == 4

----------------------------------------------------------------------------
(* Program constants *)

SHA384_BLOCKSIZE == 128

----------------------------------------------------------------------------
(* u64 arithmetic on 16-bit limbs *)

LimbBase == 2^16

U64Limbs == 1..4

U64Zero == [i \in U64Limbs |-> 0]

U64Max == [i \in U64Limbs |-> LimbBase - 1]

\* a natural number below 2^31 as a u64 (`as u64` of a small usize)
U64FromNat(n) ==
    [i \in U64Limbs |-> IF i = 1 THEN n % LimbBase
                        ELSE IF i = 2 THEN n \div LimbBase
                        ELSE 0]

\* u64::overflowing_add: the sum modulo 2^64 and whether it wrapped
overflowing_add(a, b) ==
    LET s1 == a[1] + b[1]
        s2 == a[2] + b[2] + (s1 \div LimbBase)
        s3 == a[3] + b[3] + (s2 \div LimbBase)
        s4 == a[4] + b[4] + (s3 \div LimbBase)
    IN  [res |-> <<s1 % LimbBase, s2 % LimbBase, s3 % LimbBase, s4 % LimbBase>>,
         was_overflow |-> s4 \div LimbBase = 1]

\* u64::checked_shl(3): 3 is a legal shift, so Some(x << 3); the high bits fall off
checked_shl3(a) ==
    LET t1 == a[1] * 8
        t2 == a[2] * 8 + (t1 \div LimbBase)
        t3 == a[3] * 8 + (t2 \div LimbBase)
        t4 == a[4] * 8 + (t3 \div LimbBase)
    IN  <<t1 % LimbBase, t2 % LimbBase, t3 % LimbBase, t4 % LimbBase>>

\* u64::checked_add(1): None (FALSE) when the sum does not fit
checked_add1(a) ==
    LET r == overflowing_add(a, U64FromNat(1))
    IN  [some |-> ~r.was_overflow, val |-> r.res]

\* u64::to_be_bytes: eight bytes, most significant first
to_be_bytes(a) ==
    [k \in 0..7 |-> LET limb == a[4 - (k \div 2)]
                    IN  IF k % 2 = 0 THEN limb \div 256 ELSE limb % 256]

----------------------------------------------------------------------------
(* Unbounded naturals as limb sequences (history variables only) *)

BigLimbs == 1..9

BigZero == [i \in BigLimbs |-> 0]

RECURSIVE BigCarry(_, _, _)
\* the carry into limb i of a + b
BigCarry(a, b, i) ==
    IF i = 1 THEN 0 ELSE (a[i - 1] + b[i - 1] + BigCarry(a, b, i - 1)) \div LimbBase

BigAdd(a, b) == [i \in BigLimbs |-> (a[i] + b[i] + BigCarry(a, b, i)) % LimbBase]

\* a natural number below 2^31
BigFromNat(n) ==
    [i \in BigLimbs |-> IF i = 1 THEN n % LimbBase
                        ELSE IF i = 2 THEN n \div LimbBase
                        ELSE 0]

\* hi * 2^64 + lo
BigFromWords(hi, lo) ==
    [i \in BigLimbs |-> IF i <= 4 THEN lo[i] ELSE IF i <= 8 THEN hi[i - 4] ELSE 0]

RECURSIVE BigLessFrom(_, _, _)
BigLessFrom(a, b, i) ==
    IF i = 0 THEN FALSE
    ELSE IF a[i] # b[i] THEN a[i] < b[i]
    ELSE BigLessFrom(a, b, i - 1)

\* a < b
BigLess(a, b) == BigLessFrom(a, b, 9)

\* 8 * a for a u64 a, exactly
BigTimes8(a) ==
    LET t1 == a[1] * 8
        t2 == a[2] * 8 + (t1 \div LimbBase)
        t3 == a[3] * 8 + (t2 \div LimbBase)
        t4 == a[4] * 8 + (t3 \div LimbBase)
    IN  [i \in BigLimbs |-> IF i = 1 THEN t1 % LimbBase
                            ELSE IF i = 2 THEN t2 % LimbBase
                            ELSE IF i = 3 THEN t3 % LimbBase
                            ELSE IF i = 4 THEN t4 % LimbBase
                            ELSE IF i = 5 THEN t4 \div LimbBase
                            ELSE 0]

\* 2^128 - 1, the largest value of the two-word counter
Big128Max == BigFromWords(U64Max, U64Max)

----------------------------------------------------------------------------
(* The compression kernel *)

\* H(0) of SHA-384
H0 == [iv |-> "H0", blocks |-> <<>>]

\* the SHA-512 kernel on one 128-byte block
compress(working_state, block) ==
    [working_state EXCEPT !.blocks = Append(@, block)]

\* process(None) compresses self.buffer, process(Some(bytes)) compresses bytes
process(st, data) ==
    LET block == IF data = <<>>
                 THEN [i \in 1..SHA384_BLOCKSIZE |-> st.buffer[i - 1]]
                 ELSE data
    IN  [st EXCEPT !.working_state = compress(@, block)]

\* store_u64_into_be(&self.working_state[..6], digest_dst): the first six words
store_digest(working_state) == [words |-> 6, of |-> working_state]

NoDigest == [words |-> 0, of |-> H0]
----------------------------------------------------------------------------
(* Sha384 *)

\* Sha384::new()
new ==
    [working_state |-> H0,
     buffer        |-> [i \in 0..(SHA384_BLOCKSIZE - 1) |-> 0],
     leftover      |-> 0,
     message_len   |-> [i \in 0..1 |-> U64Zero],
     is_finalized  |-> FALSE,
     panic         |-> FALSE]

\* increment_mlen with the shift to bits left out
increment_mlen_no_shift(st, length) ==
    LET sum == overflowing_add(st.message_len[1], length)
        st1 == [st EXCEPT !.message_len[1] = sum.res]
        hi  == checked_add1(st1.message_len[0])
    IN  IF sum.was_overflow
        THEN IF hi.some
             THEN [st1 EXCEPT !.message_len[0] = hi.val]
             ELSE [st1 EXCEPT !.panic = TRUE]
        ELSE st1

\* increment_mlen with a wrapping carry into the high word
increment_mlen_wrapping(st, length) ==
    LET len == checked_shl3(length)
        sum == overflowing_add(st.message_len[1], len)
        st1 == [st EXCEPT !.message_len[1] = sum.res]
    IN  IF sum.was_overflow
        THEN [st1 EXCEPT !.message_len[0] = checked_add1(@).val]
        ELSE st1

\* increment_mlen that drops the carry into the high word
increment_mlen_no_carry(st, length) ==
    LET len == checked_shl3(length)
        sum == overflowing_add(st.message_len[1], len)
    IN  [st EXCEPT !.message_len[1] = sum.res]

\* Sha384::increment_mlen(length), length a u64. A panic (the unwrap of
\* checked_add) is recorded in the field panic.
increment_mlen(st, length) ==
    LET len == checked_shl3(length)
        sum == overflowing_add(st.message_len[1], len)
        st1 == [st EXCEPT !.message_len[1] = sum.res]
        hi  == checked_add1(st1.message_len[0])
    IN  IF sum.was_overflow
        THEN IF hi.some
             THEN [st1 EXCEPT !.message_len[0] = hi.val]
             ELSE [st1 EXCEPT !.panic = TRUE]
        ELSE st1

\* reset() that leaves the buffer as it is
reset_keeps_buffer(st) ==
    [st EXCEPT !.working_state = H0,
               !.leftover      = 0,
               !.message_len   = [i \in 0..1 |-> U64Zero],
               !.is_finalized  = FALSE]

\* reset() that leaves leftover as it is
reset_keeps_leftover(st) ==
    [st EXCEPT !.working_state = H0,
               !.buffer        = [i \in 0..(SHA384_BLOCKSIZE - 1) |-> 0],
               !.message_len   = [i \in 0..1 |-> U64Zero],
               !.is_finalized  = FALSE]

\* Sha384::reset()
reset(st) ==
    [st EXCEPT !.working_state = H0,
               !.buffer        = [i \in 0..(SHA384_BLOCKSIZE - 1) |-> 0],
               !.leftover      = 0,
               !.message_len   = [i \in 0..1 |-> U64Zero],
               !.is_finalized  = FALSE]

\* eight zero words: a zeroized working_state
ZeroWords == [iv |-> "zero", blocks |-> <<>>]

\* drop() that zeroizes working_state and message_len only
drop_keeps_buffer(st) ==
    [st EXCEPT !.working_state = ZeroWords,
               !.message_len   = [i \in 0..1 |-> U64Zero]]

\* Drop for Sha384: the memory of the value when drop() returns
drop(st) ==
    [st EXCEPT !.working_state = ZeroWords,
               !.buffer        = [i \in 0..(SHA384_BLOCKSIZE - 1) |-> 0],
               !.message_len   = [i \in 0..1 |-> U64Zero]]

\* bytes[n..]
SliceFrom(bytes, n) == SubSeq(bytes, n + 1, Len(bytes))

\* bytes[..n]
SliceTo(bytes, n) == SubSeq(bytes, 1, n)

RECURSIVE update_blocks(_, _)
\* update(): the loop over the full blocks of the input, then the tail
update_blocks(st, bytes) ==
    IF st.panic THEN st
    ELSE IF Len(bytes) >= SHA384_BLOCKSIZE
    THEN update_blocks(
             increment_mlen(process(st, SliceTo(bytes, SHA384_BLOCKSIZE)),
                            U64FromNat(SHA384_BLOCKSIZE)),
             SliceFrom(bytes, SHA384_BLOCKSIZE))
    ELSE IF bytes # <<>>
    THEN increment_mlen(
             [st EXCEPT !.buffer   = [i \in 0..(SHA384_BLOCKSIZE - 1) |->
                                          IF i < Len(bytes) THEN bytes[i + 1] ELSE @[i]],
                        !.leftover = Len(bytes)],
             U64FromNat(Len(bytes)))
    ELSE st

\* update(): the part that completes a partially filled buffer
update_fill(st, data) ==
    LET room == SHA384_BLOCKSIZE - st.leftover
        want == IF room > Len(data) THEN Len(data) ELSE room
        st1  == [st EXCEPT !.buffer   = [i \in 0..(SHA384_BLOCKSIZE - 1) |->
                                             IF i >= st.leftover /\ i < st.leftover + want
                                             THEN data[i - st.leftover + 1] ELSE @[i]],
                           !.leftover = @ + want]
        st2  == increment_mlen(st1, U64FromNat(want))
    IN  IF st2.panic \/ st2.leftover < SHA384_BLOCKSIZE
        THEN st2
        ELSE update_blocks([process(st2, <<>>) EXCEPT !.leftover = 0],
                           SliceFrom(data, want))

\* Sha384::update(data): the state after the call and what the call returns
update(st, data) ==
    IF st.is_finalized THEN [st |-> st, ret |-> "Err"]
    ELSE IF data = <<>> THEN [st |-> st, ret |-> "Ok"]
    ELSE LET st1 == IF st.leftover # 0 THEN update_fill(st, data)
                    ELSE update_blocks(st, data)
         IN  [st |-> st1, ret |-> IF st1.panic THEN "panic" ELSE "Ok"]

\* the 16-byte length field: message_len[0] then message_len[1], big-endian
length_field(st) ==
    [k \in 0..15 |-> IF k < 8 THEN to_be_bytes(st.message_len[0])[k]
                     ELSE to_be_bytes(st.message_len[1])[k - 8]]

\* the padding without the loop that zeroes the bytes after the 0x80
finalize_pad_stale(st) ==
    LET st2 == [st EXCEPT !.buffer[st.leftover] = 128,
                          !.leftover = @ + 1]
        st3 == IF (SHA384_BLOCKSIZE - st2.leftover) < 16
               THEN [process(st2, <<>>) EXCEPT
                        !.buffer = [i \in 0..(SHA384_BLOCKSIZE - 1) |->
                                        IF i < st2.leftover THEN 0 ELSE @[i]]]
               ELSE st2
        st4 == [st3 EXCEPT !.buffer = [i \in 0..(SHA384_BLOCKSIZE - 1) |->
                                           IF i >= SHA384_BLOCKSIZE - 16
                                           THEN length_field(st3)[i - (SHA384_BLOCKSIZE - 16)]
                                           ELSE @[i]]]
    IN  process(st4, <<>>)

\* the padding that opens a second block already when exactly 16 bytes remain
finalize_pad_early_second_block(st) ==
    LET st1 == [st EXCEPT !.buffer[st.leftover] = 128,
                          !.leftover = @ + 1]
        st2 == [st1 EXCEPT !.buffer = [i \in 0..(SHA384_BLOCKSIZE - 1) |->
                                           IF i >= st1.leftover THEN 0 ELSE @[i]]]
        st3 == IF (SHA384_BLOCKSIZE - st2.leftover) <= 16
               THEN [process(st2, <<>>) EXCEPT
                        !.buffer = [i \in 0..(SHA384_BLOCKSIZE - 1) |->
                                        IF i < st2.leftover THEN 0 ELSE @[i]]]
               ELSE st2
        st4 == [st3 EXCEPT !.buffer = [i \in 0..(SHA384_BLOCKSIZE - 1) |->
                                           IF i >= SHA384_BLOCKSIZE - 16
                                           THEN length_field(st3)[i - (SHA384_BLOCKSIZE - 16)]
                                           ELSE @[i]]]
    IN  process(st4, <<>>)

\* the padding whose zeroing loop starts one byte late
finalize_pad_skip_one(st) ==
    LET st1 == [st EXCEPT !.buffer[st.leftover] = 128,
                          !.leftover = @ + 1]
        st2 == [st1 EXCEPT !.buffer = [i \in 0..(SHA384_BLOCKSIZE - 1) |->
                                           IF i >= st1.leftover + 1 THEN 0 ELSE @[i]]]
        st3 == IF (SHA384_BLOCKSIZE - st2.leftover) < 16
               THEN [process(st2, <<>>) EXCEPT
                        !.buffer = [i \in 0..(SHA384_BLOCKSIZE - 1) |->
                                        IF i < st2.leftover THEN 0 ELSE @[i]]]
               ELSE st2
        st4 == [st3 EXCEPT !.buffer = [i \in 0..(SHA384_BLOCKSIZE - 1) |->
                                           IF i >= SHA384_BLOCKSIZE - 16
                                           THEN length_field(st3)[i - (SHA384_BLOCKSIZE - 16)]
                                           ELSE @[i]]]
    IN  process(st4, <<>>)

\* the padding that does not clear the buffer after compressing the first of
\* two blocks
finalize_pad_no_clear(st) ==
    LET st1 == [st EXCEPT !.buffer[st.leftover] = 128,
                          !.leftover = @ + 1]
        st2 == [st1 EXCEPT !.buffer = [i \in 0..(SHA384_BLOCKSIZE - 1) |->
                                           IF i >= st1.leftover THEN 0 ELSE @[i]]]
        st3 == IF (SHA384_BLOCKSIZE - st2.leftover) < 16
               THEN process(st2, <<>>)
               ELSE st2
        st4 == [st3 EXCEPT !.buffer = [i \in 0..(SHA384_BLOCKSIZE - 1) |->
                                           IF i >= SHA384_BLOCKSIZE - 16
                                           THEN length_field(st3)[i - (SHA384_BLOCKSIZE - 16)]
                                           ELSE @[i]]]
    IN  process(st4, <<>>)

\* _finalize_internal(), from the 0x80 byte on
finalize_pad(st) ==
    LET st1 == [st EXCEPT !.buffer[st.leftover] = 128,
                          !.leftover = @ + 1]
        st2 == [st1 EXCEPT !.buffer = [i \in 0..(SHA384_BLOCKSIZE - 1) |->
                                           IF i >= st1.leftover THEN 0 ELSE @[i]]]
        st3 == IF (SHA384_BLOCKSIZE - st2.leftover) < 16
               THEN [process(st2, <<>>) EXCEPT
                        !.buffer = [i \in 0..(SHA384_BLOCKSIZE - 1) |->
                                        IF i < st2.leftover THEN 0 ELSE @[i]]]
               ELSE st2
        st4 == [st3 EXCEPT !.buffer = [i \in 0..(SHA384_BLOCKSIZE - 1) |->
                                           IF i >= SHA384_BLOCKSIZE - 16
                                           THEN length_field(st3)[i - (SHA384_BLOCKSIZE - 16)]
                                           ELSE @[i]]]
    IN  process(st4, <<>>)

\* _finalize_internal that never sets is_finalized
finalize_internal_no_flag(st) ==
    IF st.is_finalized THEN [st |-> st, ret |-> "Err", digest |-> NoDigest]
    ELSE IF st.leftover >= SHA384_BLOCKSIZE
    THEN [st |-> [st EXCEPT !.panic = TRUE], ret |-> "panic", digest |-> NoDigest]
    ELSE LET st2 == finalize_pad(st)
         IN  [st |-> st2, ret |-> "Ok", digest |-> store_digest(st2.working_state)]

\* _finalize_internal that zeroes the buffer from leftover on before it looks
\* at is_finalized
finalize_internal_check_late(st) ==
    LET st0 == [st EXCEPT !.buffer = [i \in 0..(SHA384_BLOCKSIZE - 1) |->
                                          IF i >= st.leftover THEN 0 ELSE @[i]]]
    IN  IF st.is_finalized THEN [st |-> st0, ret |-> "Err", digest |-> NoDigest]
        ELSE LET st1 == [st EXCEPT !.is_finalized = TRUE]
             IN  IF st1.leftover >= SHA384_BLOCKSIZE
                 THEN [st |-> [st1 EXCEPT !.panic = TRUE], ret |-> "panic", digest |-> NoDigest]
                 ELSE LET st2 == finalize_pad(st1)
                      IN  [st |-> st2, ret |-> "Ok", digest |-> store_digest(st2.working_state)]

\* Sha384::_finalize_internal(digest_dst): the state after the call, what it
\* returns and the bytes stored into digest_dst
_finalize_internal(st) ==
    IF st.is_finalized THEN [st |-> st, ret |-> "Err", digest |-> NoDigest]
    ELSE LET st1 == [st EXCEPT !.is_finalized = TRUE]
         IN  IF st1.leftover >= SHA384_BLOCKSIZE
             THEN [st |-> [st1 EXCEPT !.panic = TRUE], ret |-> "panic", digest |-> NoDigest]
             ELSE LET st2 == finalize_pad(st1)
                  IN  [st |-> st2, ret |-> "Ok", digest |-> store_digest(st2.working_state)]

\* Sha384::finalize()
finalize(st) == _finalize_internal(st)

\* Sha384::digest(data): the Digest, or NoDigest when a step fails
digest(data) ==
    LET u == update(new, data)
    IN  IF u.ret # "Ok" THEN NoDigest ELSE finalize(u.st).digest
----------------------------------------------------------------------------
(* util *)

\* a byte with a known value
Byte(b) == <<"u8", b>>

\* What the OS RNG does in one call: OsRng::new() succeeds or not,
\* try_fill_bytes succeeds or not, and the bytes it delivers.
RngOutcomes ==
    {[open |-> o, read |-> r, first |-> b] :
        o \in BOOLEAN, r \in BOOLEAN, b \in {17, 200}}

\* gen_rand_key without the check for an empty destination
gen_rand_key_no_empty_check(dst_len, rng) ==
    IF ~rng.open \/ ~rng.read
    THEN [ret |-> "Err", dst |-> [i \in 1..dst_len |-> Byte(0)], consulted |-> TRUE]
    ELSE [ret |-> "Ok",
          dst |-> [i \in 1..dst_len |-> Byte((rng.first + i) % 256)],
          consulted |-> TRUE]

\* util::gen_rand_key(dst), dst of dst_len bytes: what it returns, the bytes
\* left in dst and whether the OS RNG was consulted
gen_rand_key(dst_len, rng) ==
    IF dst_len = 0
    THEN [ret |-> "Err", dst |-> <<>>, consulted |-> FALSE]
    ELSE IF ~rng.open \/ ~rng.read
    THEN [ret |-> "Err", dst |-> [i \in 1..dst_len |-> Byte(0)], consulted |-> TRUE]
    ELSE [ret |-> "Ok",
          dst |-> [i \in 1..dst_len |-> Byte((rng.first + i) % 256)],
          consulted |-> TRUE]

\* util::secure_rand_bytes(dst), the fill hash_password calls
secure_rand_bytes(dst_len, rng) == gen_rand_key(dst_len, rng)

\* subtle's a.ct_eq(b).unwrap_u8() on slices of equal length
ct_eq(a, b) == IF a = b THEN 1 ELSE 0

\* compare_ct with a boolean for a mismatch
compare_ct_bool(a, b) ==
    IF Len(a) # Len(b) THEN "Err(UnknownCryptoError)"
    ELSE IF ct_eq(a, b) = 1 THEN "Ok(true)"
    ELSE "Ok(false)"

\* compare_ct that compares the common prefix and never looks at the lengths
compare_ct_prefix(a, b) ==
    LET n == IF Len(a) < Len(b) THEN Len(a) ELSE Len(b)
    IN  IF ct_eq(SubSeq(a, 1, n), SubSeq(b, 1, n)) = 1 THEN "Ok(true)"
        ELSE "Err(UnknownCryptoError)"

\* compare_ct that answers false for slices of unequal length
compare_ct_len_false(a, b) ==
    IF Len(a) # Len(b) THEN "Ok(false)"
    ELSE IF ct_eq(a, b) = 1 THEN "Ok(true)"
    ELSE "Err(UnknownCryptoError)"

\* util::compare_ct(a, b)
compare_ct(a, b) ==
    IF Len(a) # Len(b) THEN "Err(UnknownCryptoError)"
    ELSE IF ct_eq(a, b) = 1 THEN "Ok(true)"
    ELSE "Err(UnknownCryptoError)"

----------------------------------------------------------------------------
(* pbkdf2: PBKDF2-HMAC-SHA512 as a free function. Byte i of the derived key *)
(* is a term over the password, the salt and the iteration count, so two    *)
(* derived keys agree exactly when they were derived from the same inputs.  *)

\* pbkdf2::derive_key(password, salt, iterations, dst_out), dst_out of dk_len bytes
derive_key(password, salt, iterations, dk_len) ==
    IF iterations < 1 \/ dk_len < 1
    THEN [ret |-> "Err", dk |-> <<>>]
    ELSE [ret |-> "Ok",
          dk  |-> [i \in 1..dk_len |-> <<"pbkdf2", password, salt, iterations, i>>]]

\* pbkdf2::verify(expected_dk, password, salt, iterations, dk_out): what it
\* returns, the derivations and the comparisons it made
verify(expected_dk, password, salt, iterations, dk_len) ==
    LET d == derive_key(password, salt, iterations, dk_len)
        derived == <<[password |-> password, salt |-> salt,
                      iterations |-> iterations, len |-> dk_len]>>
    IN  IF d.ret # "Ok"
        THEN [ret |-> "Err(ValidationCryptoError)", derived |-> derived, compared |-> 0]
        ELSE IF compare_ct(d.dk, expected_dk) \notin {"Ok(true)", "Ok(false)"}
        THEN [ret |-> "Err(ValidationCryptoError)", derived |-> derived, compared |-> 1]
        ELSE [ret |-> "Ok(true)", derived |-> derived, compared |-> 1]

----------------------------------------------------------------------------
(* pwhash *)

\* hash_password that derives the key before the salt is filled
hash_password_unfilled_salt(password, rng) ==
    LET r    == secure_rand_bytes(64, rng)
        salt == r.dst
        d    == derive_key(password, [i \in 1..64 |-> Byte(0)], 512000, 64)
        dk   == [i \in 1..128 |-> IF i <= 64 THEN salt[i] ELSE d.dk[i - 64]]
    IN  IF r.ret # "Ok" THEN [ret |-> "panic", dk |-> <<>>, derived |-> <<>>]
        ELSE [ret |-> "Ok", dk |-> dk,
              derived |-> <<[password |-> password, salt |-> [i \in 1..64 |-> Byte(0)],
                             iterations |-> 512000, len |-> 64]>>]

\* hash_password with ? in place of the two unwrap() calls
hash_password_propagates(password, rng) ==
    LET r    == secure_rand_bytes(64, rng)
        salt == r.dst
        d    == derive_key(password, salt, 512000, 64)
        dk   == [i \in 1..128 |-> IF i <= 64 THEN salt[i] ELSE d.dk[i - 64]]
    IN  IF r.ret # "Ok" THEN [ret |-> "Err", dk |-> <<>>, derived |-> <<>>]
        ELSE IF d.ret # "Ok"
        THEN [ret |-> "Err", dk |-> <<>>,
              derived |-> <<[password |-> password, salt |-> salt,
                             iterations |-> 512000, len |-> 64]>>]
        ELSE [ret |-> "Ok", dk |-> dk,
              derived |-> <<[password |-> password, salt |-> salt,
                             iterations |-> 512000, len |-> 64]>>]

\* pwhash::hash_password(password): what it returns, the array, and the
\* arguments of the key derivation it made
hash_password(password, rng) ==
    LET r    == secure_rand_bytes(64, rng)
        salt == r.dst
        d    == derive_key(password, salt, 512000, 64)
        dk   == [i \in 1..128 |-> IF i <= 64 THEN salt[i] ELSE d.dk[i - 64]]
    IN  IF r.ret # "Ok" THEN [ret |-> "panic", dk |-> <<>>, derived |-> <<>>]
        ELSE IF d.ret # "Ok"
        THEN [ret |-> "panic", dk |-> <<>>,
              derived |-> <<[password |-> password, salt |-> salt,
                             iterations |-> 512000, len |-> 64]>>]
        ELSE [ret |-> "Ok", dk |-> dk,
              derived |-> <<[password |-> password, salt |-> salt,
                             iterations |-> 512000, len |-> 64]>>]

\* verify_password_hash with the salt and the key regions exchanged
verify_password_hash_swapped(expected_hash, password) ==
    IF Len(expected_hash) # 128
    THEN [ret |-> "Err(ValidationCryptoError)", derived |-> <<>>, compared |-> 0]
    ELSE verify(SliceTo(expected_hash, 64), password, SliceFrom(expected_hash, 64),
                512000, 64)

\* verify_password_hash that rejects only the arrays that are too short
verify_password_hash_short_only(expected_hash, password) ==
    IF Len(expected_hash) < 128
    THEN [ret |-> "Err(ValidationCryptoError)", derived |-> <<>>, compared |-> 0]
    ELSE verify(SliceFrom(expected_hash, 64), password, SliceTo(expected_hash, 64),
                512000, 64)

\* pwhash::verify_password_hash(expected_hash, password)
verify_password_hash(expected_hash, password) ==
    IF Len(expected_hash) # 128
    THEN [ret |-> "Err(ValidationCryptoError)", derived |-> <<>>, compared |-> 0]
    ELSE verify(SliceFrom(expected_hash, 64), password, SliceTo(expected_hash, 64),
                512000, 64)

----------------------------------------------------------------------------
(* The callers of Sha384: data and starting points *)

\* lengths of the slices handed to update()
ChunkLens == {0, 1, 111, 112, 127, 128, 129}

\* n bytes of value b
Fill(n, b) == [i \in 1..n |-> b]

\* the slices handed to update(): every length with one byte value, and a
\* second byte value for a short and a block-sized slice
Chunks == {Fill(n, 97) : n \in ChunkLens} \cup {Fill(n, 98) : n \in {1, 128}}

\* u64::MAX - n, for n below 2^16
U64MaxMinus(n) == [i \in U64Limbs |-> IF i = 1 THEN LimbBase - 1 - n ELSE LimbBase - 1]

\* Counter values of states that already absorbed many bytes: [message_len[0],
\* message_len[1]], each a multiple of 8 bits. The third is the counter of
\* test_panic_on_second_overflow.
SeedCounters ==
    { <<U64Zero, U64MaxMinus(7)>>,
      <<U64FromNat(1), U64MaxMinus(7)>>,
      <<U64Max, U64MaxMinus(7)>>,
      <<U64Max, U64MaxMinus(1023)>>,
      <<U64Max, U64MaxMinus(2047)>> }

\* The state new() reaches by absorbing (c[1] * 2^64 + c[2]) / 8 bytes: the
\* chaining value of the blocks compressed so far, the tail in the buffer.
Seeded(c) ==
    LET tail == (c[2][1] \div 8) % SHA384_BLOCKSIZE
    IN  [new EXCEPT !.working_state = [iv |-> "seeded", blocks |-> <<>>],
                    !.buffer        = [i \in 0..(SHA384_BLOCKSIZE - 1) |->
                                           IF i < tail THEN 97 ELSE 0],
                    !.leftover      = tail,
                    !.message_len   = [i \in 0..1 |-> c[i + 1]]]

\* u64::MAX / 8
U64MaxDiv8 == [i \in U64Limbs |-> IF i = 4 THEN (LimbBase \div 8) - 1 ELSE LimbBase - 1]

\* the lengths handed to increment_mlen(): those of test_mlen_increase_values,
\* the lengths update() passes, and the bounds of the legal range
MlenLengths == {U64FromNat(n) : n \in {0, 1, 12, 17, SHA384_BLOCKSIZE}} \cup {U64MaxDiv8}

\* the counters a context is built with: those of the two tests, the seeded
\* ones, and the largest counter
MlenCounters == SeedCounters \cup {<<U64Zero, U64Zero>>, <<U64Max, U64Max>>}

----------------------------------------------------------------------------
(* The callers of pwhash *)

Passwords == {Fill(64, 0), <<112, 119>>}

\* a[from..to] overwritten with the byte b (0-based, to excluded)
Overwrite(a, from, to, b) ==
    [i \in 1..Len(a) |-> IF i - 1 >= from /\ i - 1 < to THEN b ELSE a[i]]

\* The arrays a caller holding the envelope env passes as expected_hash: env,
\* the modifications of the tests (ten bytes set to 0x61 in the salt, in the
\* key, across both), single bytes changed, the salt or the key of another
\* envelope spliced in, another envelope, and arrays that are too short or
\* too long.
ExpectedHashes(env) ==
    LET others == {hash_password(q, rng).dk :
                       q \in Passwords,
                       rng \in {x \in RngOutcomes : x.open /\ x.read}}
    IN  IF env = <<>>
        THEN {[i \in 1..n |-> Byte(0)] : n \in {0, 127, 128, 129}}
        ELSE {env, SliceTo(env, 127), Append(env, Byte(0)), <<>>}
             \cup {Overwrite(env, 0, 10, Byte(97)),
                   Overwrite(env, 70, 80, Byte(97)),
                   Overwrite(env, 63, 73, Byte(97))}
             \cup {Overwrite(env, k, k + 1, Byte(1)) : k \in {0, 63, 64, 127}}
             \cup others
             \cup {SliceTo(o, 64) \o SliceFrom(env, 64) : o \in others}
             \cup {SliceTo(env, 64) \o SliceFrom(o, 64) : o \in others}

----------------------------------------------------------------------------
(* Initial states *)

ShaInit ==
    /\ state = new
    /\ prev = new
    /\ op = "new"
    /\ ret = "Ok"
    /\ digest_out = NoDigest
    /\ absorbed = <<>>
    /\ calls = 0
    /\ ok_finalizes = 0
    /\ hashed_bits = BigZero

ShaInitSeeded ==
    \E c \in SeedCounters :
        /\ state = Seeded(c)
        /\ prev = Seeded(c)
        /\ op = "new"
        /\ ret = "Ok"
        /\ digest_out = NoDigest
        /\ absorbed = <<>>
        /\ calls = 0
        /\ ok_finalizes = 0
        /\ hashed_bits = BigFromWords(c[1], c[2])

\* a context built field by field, as the tests of increment_mlen build it
ShaInitMlen ==
    \E c \in MlenCounters :
        /\ state = [new EXCEPT !.message_len = [i \in 0..1 |-> c[i + 1]]]
        /\ prev = [new EXCEPT !.message_len = [i \in 0..1 |-> c[i + 1]]]
        /\ op = "new"
        /\ ret = "Ok"
        /\ digest_out = NoDigest
        /\ absorbed = <<>>
        /\ calls = 0
        /\ ok_finalizes = 0
        /\ hashed_bits = BigFromWords(c[1], c[2])

PwInit ==
    /\ pw_op = "none"
    /\ hp_password = <<>>
    /\ hp_rng = [open |-> TRUE, read |-> TRUE, first |-> 17]
    /\ hp_ret = "none"
    /\ envelope = <<>>
    /\ hp_derived = <<>>
    /\ v_expected = <<>>
    /\ v_password = <<>>
    /\ v_ret = "none"
    /\ v_derived = <<>>
    /\ v_compared = 0

UtilInit ==
    /\ u_op = "none"
    /\ ct_a = <<>>
    /\ ct_b = <<>>
    /\ ct_ret = "none"
    /\ rk_len = 0
    /\ rk_rng = [open |-> TRUE, read |-> TRUE, first |-> 17]
    /\ rk_out = [ret |-> "none", dst |-> <<>>, consulted |-> FALSE]

Init == ShaInit /\ PwInit /\ UtilInit

InitSeeded == ShaInitSeeded /\ PwInit /\ UtilInit

InitMlen == ShaInitMlen /\ PwInit /\ UtilInit

----------------------------------------------------------------------------
(* Sha384 steps *)

\* state.update(data)
Update(data) ==
    /\ ~state.panic
    /\ calls < MaxUpdates
    /\ LET r == update(state, data)
       IN  /\ state' = r.st
           /\ ret' = r.ret
           /\ absorbed' = IF r.ret = "Ok" THEN absorbed \o data ELSE absorbed
           /\ hashed_bits' = IF r.ret = "Err" THEN hashed_bits
                             ELSE BigAdd(hashed_bits, BigFromNat(8 * Len(data)))
    /\ prev' = state
    /\ op' = "update"
    /\ calls' = calls + 1
    /\ UNCHANGED <<digest_out, ok_finalizes>>
    /\ UNCHANGED <<pw_vars, util_vars>>

\* state.finalize()
Finalize ==
    /\ ~state.panic
    /\ LET r == finalize(state)
       IN  /\ state' = r.st
           /\ ret' = r.ret
           /\ digest_out' = IF r.ret = "Ok" THEN r.digest ELSE digest_out
           /\ ok_finalizes' = IF r.ret = "Ok" THEN ok_finalizes + 1 ELSE ok_finalizes
    /\ prev' = state
    /\ op' = "finalize"
    /\ UNCHANGED <<absorbed, calls, hashed_bits>>
    /\ UNCHANGED <<pw_vars, util_vars>>

\* state.reset()
Reset ==
    /\ ~state.panic
    /\ state' = reset(state)
    /\ prev' = state
    /\ op' = "reset"
    /\ ret' = "Ok"
    /\ digest_out' = NoDigest
    /\ absorbed' = <<>>
    /\ calls' = 0
    /\ ok_finalizes' = 0
    /\ hashed_bits' = BigZero
    /\ UNCHANGED <<pw_vars, util_vars>>

Next ==
    \/ \E data \in Chunks : Update(data)
    \/ Finalize
    \/ Reset

\* state.increment_mlen(length), called directly as the unit tests call it
IncrementMlen(length) ==
    /\ ~state.panic
    /\ calls < MaxIncrements
    /\ state' = increment_mlen(state, length)
    /\ ret' = IF state'.panic THEN "panic" ELSE "Ok"
    /\ prev' = state
    /\ op' = "increment_mlen"
    /\ calls' = calls + 1
    /\ hashed_bits' = BigAdd(hashed_bits, BigTimes8(length))
    /\ UNCHANGED <<digest_out, absorbed, ok_finalizes>>
    /\ UNCHANGED <<pw_vars, util_vars>>

MlenNext == \E length \in MlenLengths : IncrementMlen(length)

\* the state goes out of scope; a panic unwinds and drops it as well
Drop ==
    /\ op # "drop"
    /\ state' = drop(state)
    /\ prev' = state
    /\ op' = "drop"
    /\ UNCHANGED <<ret, digest_out, absorbed, calls, ok_finalizes, hashed_bits>>
    /\ UNCHANGED <<pw_vars, util_vars>>

\* a dropped value takes no further call
NextOrDrop ==
    \/ \E data \in Chunks : op # "drop" /\ Update(data)
    \/ op # "drop" /\ Finalize
    \/ op # "drop" /\ Reset
    \/ Drop

----------------------------------------------------------------------------
(* pwhash steps *)

\* hash_password(&password), the OS RNG doing rng
HashPassword(password, rng) ==
    /\ LET r == hash_password(password, rng)
       IN  /\ hp_ret' = r.ret
           /\ envelope' = r.dk
           /\ hp_derived' = r.derived
    /\ pw_op' = "hash_password"
    /\ hp_password' = password
    /\ hp_rng' = rng
    /\ v_expected' = <<>>
    /\ v_password' = <<>>
    /\ v_ret' = "none"
    /\ v_derived' = <<>>
    /\ v_compared' = 0
    /\ UNCHANGED <<sha_vars, util_vars>>

\* verify_password_hash(&expected_hash, &password)
VerifyPasswordHash(expected_hash, password) ==
    /\ LET r == verify_password_hash(expected_hash, password)
       IN  /\ v_ret' = r.ret
           /\ v_derived' = r.derived
           /\ v_compared' = r.compared
    /\ pw_op' = "verify_password_hash"
    /\ v_expected' = expected_hash
    /\ v_password' = password
    /\ UNCHANGED <<hp_password, hp_rng, hp_ret, envelope, hp_derived>>
    /\ UNCHANGED <<sha_vars, util_vars>>

PwNext ==
    \/ \E password \in Passwords, rng \in RngOutcomes : HashPassword(password, rng)
    \/ \E expected_hash \in ExpectedHashes(envelope), password \in Passwords :
           VerifyPasswordHash(expected_hash, password)

----------------------------------------------------------------------------
(* util steps *)

\* the slices handed to compare_ct: every content up to MaxCtLen bytes, and
\* the buffers of test_ct_eq_ok, test_ct_eq_diff_len and test_ct_ne
CtInputs ==
    UNION {[1..n -> {Byte(6), Byte(118)}] : n \in 0..MaxCtLen}
        \cup {[i \in 1..10 |-> Byte(6)], [i \in 1..5 |-> Byte(6)], [i \in 1..10 |-> Byte(118)]}

\* the lengths of the destinations handed to gen_rand_key
RandKeyLens == {0, 1, 64}

\* compare_ct(&a, &b)
CompareCt(a, b) ==
    /\ u_op' = "compare_ct"
    /\ ct_a' = a
    /\ ct_b' = b
    /\ ct_ret' = compare_ct(a, b)
    /\ rk_len' = 0
    /\ rk_rng' = [open |-> TRUE, read |-> TRUE, first |-> 17]
    /\ rk_out' = [ret |-> "none", dst |-> <<>>, consulted |-> FALSE]
    /\ UNCHANGED <<sha_vars, pw_vars>>

\* gen_rand_key(&mut dst), dst of dst_len bytes, the OS RNG doing rng
GenRandKey(dst_len, rng) ==
    /\ u_op' = "gen_rand_key"
    /\ rk_len' = dst_len
    /\ rk_rng' = rng
    /\ rk_out' = gen_rand_key(dst_len, rng)
    /\ ct_a' = <<>>
    /\ ct_b' = <<>>
    /\ ct_ret' = "none"
    /\ UNCHANGED <<sha_vars, pw_vars>>

UtilNext ==
    \/ \E a \in CtInputs, b \in CtInputs : CompareCt(a, b)
    \/ \E dst_len \in RandKeyLens, rng \in RngOutcomes : GenRandKey(dst_len, rng)

----------------------------------------------------------------------------
(* Specifications *)

\* a Sha384 state from new()
Spec == Init /\ [][Next]_vars

\* a Sha384 state that has already absorbed close to 2^64, 2^65 or 2^128 bits
SpecSeeded == InitSeeded /\ [][Next]_vars

\* a Sha384 state from new(), to the end of its life
SpecDrop == Init /\ [][NextOrDrop]_vars

\* increment_mlen() called directly on a context built with a given counter
SpecMlen == InitMlen /\ [][MlenNext]_vars

\* the callers of pwhash
SpecPw == Init /\ [][PwNext]_vars

\* the callers of util
SpecUtil == Init /\ [][UtilNext]_vars

----------------------------------------------------------------------------
(* Properties of Sha384 *)

\* the five fields of the struct
Fields(st) ==
    <<st.working_state, st.buffer, st.leftover, st.message_len, st.is_finalized>>

\* C1: once finalize() has returned Ok, every later update() and finalize()
\* returns UnknownCryptoError until reset(); before the first Ok finalize()
\* after new()/reset(), update() and finalize() are accepted; so at most one
\* finalize() returns Ok between two new()/reset() points.
C1_FinalizeOnceUntilReset ==
    [][ /\ (ok_finalizes > 0 /\ op' \in {"update", "finalize"}) => ret' = "Err"
        /\ (ok_finalizes = 0 /\ op' \in {"update", "finalize"}) => ret' = "Ok"
        /\ ok_finalizes' <= 1 ]_vars

\* an update() rejected after a successful finalize()
C1_Witness ==
    ok_finalizes = 1 /\ op = "update" /\ ret = "Err" /\ prev.is_finalized

\* C2: a successful finalize() after update() of each chunk returns the digest
\* Sha384::digest returns for the concatenation of the chunks (and, the
\* chaining value being the list of compressed blocks, compresses the same
\* blocks).
C2_StreamingEqualsOneShot ==
    (op = "finalize" /\ ret = "Ok") => digest_out = digest(absorbed)

\* three chunks, one of them empty, one straddling a block boundary
C2_Witness ==
    /\ op = "finalize" /\ ret = "Ok"
    /\ calls = 3
    /\ Len(absorbed) = 1 + SHA384_BLOCKSIZE
    /\ Len(digest_out.of.blocks) = 2

\* C3: reset() leaves the five fields equal to those of new(), whatever the
\* state it is called on.
C3_ResetEqualsNew ==
    op = "reset" => Fields(state) = Fields(new)

\* reset() called on a finalized state with a used buffer
C3_Witness ==
    /\ op = "reset"
    /\ prev.is_finalized
    /\ prev.leftover > 0
    /\ prev.buffer # new.buffer
    /\ prev.working_state # H0

\* C4 as stated: leftover < blocksize after every return of a public operation
C4_LeftoverBelowBlocksize ==
    state.leftover < SHA384_BLOCKSIZE

\* C4, amended: leftover < blocksize in every state that is not finalized,
\* so after every return of new() and reset() and every Ok return of
\* update(); in a finalized state it is at most blocksize.
C4_LeftoverBelowBlocksizeUnlessFinalized ==
    /\ ~state.is_finalized => state.leftover < SHA384_BLOCKSIZE
    /\ (op \in {"new", "update", "reset"} /\ ret = "Ok") => state.leftover < SHA384_BLOCKSIZE
    /\ state.leftover <= SHA384_BLOCKSIZE

\* update() returned with the buffer one byte short of a block
C4_Witness ==
    op = "update" /\ ret = "Ok" /\ ~state.is_finalized /\ state.leftover = SHA384_BLOCKSIZE - 1

\* byte k (0 = most significant) of the 16-byte big-endian form of n < 2^31
BigEndian16(n, k) ==
    IF k < 12 THEN 0 ELSE (n \div (256 ^ (15 - k))) % 256

\* the last block compressed
LastBlock(st) == st.working_state.blocks[Len(st.working_state.blocks)]

\* C5: after updates that absorbed N bytes since new()/reset(),
\* message_len[0] * 2^64 + message_len[1] = 8 * N; finalize() leaves
\* message_len alone and the length field of the last block is 8 * N.
C5_MessageLenIsBits ==
    /\ BigFromWords(state.message_len[0], state.message_len[1])
           = BigFromNat(8 * Len(absorbed))
    /\ (op = "finalize" /\ ret = "Ok") =>
           /\ state.message_len = prev.message_len
           /\ \A k \in 0..15 :
                  LastBlock(state)[SHA384_BLOCKSIZE - 16 + k + 1]
                      = BigEndian16(8 * Len(absorbed), k)

\* finalize() after more than two blocks of input in several updates
C5_Witness ==
    /\ op = "finalize" /\ ret = "Ok"
    /\ calls > 1
    /\ Len(absorbed) > 2 * SHA384_BLOCKSIZE

\* 2 * (2^64 - 1)
BigDocCeiling == BigFromWords(U64FromNat(1), U64MaxMinus(1))

PadBlocks ==
    SubSeq(state.working_state.blocks,
           Len(prev.working_state.blocks) + 1, Len(state.working_state.blocks))

\* C17: a successful finalize() on a buffered tail of t bytes compresses one
\* block when 0 <= t <= 111 and two blocks when 112 <= t <= 127; the last
\* block compressed carries the length field in exactly its final 16 bytes:
\* the padding (0x80 or zeros) runs up to byte 111 of it.
C17_PaddingBoundary ==
    (op = "finalize" /\ ret = "Ok") =>
        LET t    == prev.leftover
            last == LastBlock(state)
        IN  /\ t <= 127
            /\ Len(PadBlocks) = IF t <= 111 THEN 1 ELSE 2
            /\ prev.working_state.blocks
                   = SubSeq(state.working_state.blocks, 1, Len(prev.working_state.blocks))
            /\ Len(last) = SHA384_BLOCKSIZE
            /\ \A k \in 0..7 :
                   /\ last[112 + k + 1] = to_be_bytes(prev.message_len[0])[k]
                   /\ last[120 + k + 1] = to_be_bytes(prev.message_len[1])[k]
            /\ last[111 + 1] = IF t = 111 THEN 128 ELSE 0

\* finalize() on a tail of 112 bytes: the first length without room
C17_Witness ==
    /\ op = "finalize" /\ ret = "Ok"
    /\ prev.leftover = 112
    /\ Len(PadBlocks) = 2

\* byte k of the padded data: the blocks of PadBlocks one after the other
PaddedByte(k) == PadBlocks[(k \div SHA384_BLOCKSIZE) + 1][(k % SHA384_BLOCKSIZE) + 1]

\* C18: in a successful finalize() with tail length t the data compressed is
\* tail || 0x80 || zeros || message_len[0] big-endian || message_len[1]
\* big-endian, every byte between the 0x80 and the length field being zero;
\* with two blocks the first is tail || 0x80 || zeros and the second is 112
\* zero bytes then the length field.
C18_PaddingLayout ==
    (op = "finalize" /\ ret = "Ok") =>
        LET t     == prev.leftover
            total == Len(PadBlocks) * SHA384_BLOCKSIZE
        IN  /\ \A b \in 1..Len(PadBlocks) : Len(PadBlocks[b]) = SHA384_BLOCKSIZE
            /\ \A k \in 0..(total - 1) :
                   PaddedByte(k) =
                       IF k < t THEN prev.buffer[k]
                       ELSE IF k = t THEN 128
                       ELSE IF k < total - 16 THEN 0
                       ELSE IF k < total - 8
                       THEN to_be_bytes(prev.message_len[0])[k - (total - 16)]
                       ELSE to_be_bytes(prev.message_len[1])[k - (total - 8)]
            /\ Len(PadBlocks) = 2 =>
                   /\ \A k \in (t + 1)..(SHA384_BLOCKSIZE - 1) : PadBlocks[1][k + 1] = 0
                   /\ \A k \in 0..111 : PadBlocks[2][k + 1] = 0
            /\ \A k \in 0..(t - 1) :
                   prev.buffer[k] = absorbed[Len(absorbed) - t + k + 1]

\* two blocks of padding after a full tail of 127 non-zero bytes and a
\* non-zero length
C18_Witness ==
    /\ op = "finalize" /\ ret = "Ok"
    /\ prev.leftover = 127
    /\ Len(PadBlocks) = 2
    /\ PadBlocks[1][127] # 0
    /\ PadBlocks[2][SHA384_BLOCKSIZE] # 0

\* C19: a finalize() or update() that returns UnknownCryptoError was called on
\* a finalized state and modifies none of working_state, buffer, leftover,
\* message_len, is_finalized; so reset() after it gives what reset() before
\* it gives.
C19_RejectedCallChangesNothing ==
    (op \in {"update", "finalize"} /\ ret = "Err") =>
        /\ prev.is_finalized
        /\ state.working_state = prev.working_state
        /\ state.buffer = prev.buffer
        /\ state.leftover = prev.leftover
        /\ state.message_len = prev.message_len
        /\ state.is_finalized = prev.is_finalized
        /\ reset(state) = reset(prev)

\* a second finalize() rejected on a state whose buffer holds a non-zero
\* length field
C19_Witness ==
    /\ op = "finalize" /\ ret = "Err"
    /\ ok_finalizes = 1
    /\ prev.leftover > 1
    /\ prev.buffer[SHA384_BLOCKSIZE - 1] # 0

\* contents for the part of the buffer behind leftover: zeros, 0xff, 0x80 and
\* a ramp
StaleContents ==
    { [i \in 0..(SHA384_BLOCKSIZE - 1) |-> 0],
      [i \in 0..(SHA384_BLOCKSIZE - 1) |-> 255],
      [i \in 0..(SHA384_BLOCKSIZE - 1) |-> 128],
      [i \in 0..(SHA384_BLOCKSIZE - 1) |-> i + 1] }

\* st with buffer[leftover..128] replaced
WithStale(st, junk) ==
    [st EXCEPT !.buffer = [i \in 0..(SHA384_BLOCKSIZE - 1) |->
                               IF i >= st.leftover THEN junk[i] ELSE @[i]]]

\* a and b agree on everything but buffer[leftover..128]
AgreeUpToStale(a, b) ==
    /\ a.working_state = b.working_state
    /\ a.leftover = b.leftover
    /\ a.message_len = b.message_len
    /\ a.is_finalized = b.is_finalized
    /\ \A i \in 0..(a.leftover - 1) : a.buffer[i] = b.buffer[i]

\* a and b finalize alike: same return, same blocks compressed, same digest
FinalizeAlike(a, b) ==
    LET fa == finalize(a)
        fb == finalize(b)
    IN  /\ fa.ret = fb.ret
        /\ fa.st.working_state = fb.st.working_state
        /\ fa.digest = fb.digest

\* C20: a non-finalized state and any state that differs from it only in
\* buffer[leftover..128] finalize to the same blocks and digest; update() of
\* the same data takes them to two states that again differ at most in
\* buffer[leftover..128] and finalize alike, so the same holds after any
\* sequence of update() calls.
C20_StaleBytesNeverReachDigest ==
    (~state.is_finalized /\ ~state.panic) =>
        \A junk \in StaleContents :
            LET twin == WithStale(state, junk)
            IN  /\ AgreeUpToStale(state, twin)
                /\ FinalizeAlike(state, twin)
                /\ \A data \in Chunks :
                       LET us == update(state, data)
                           ut == update(twin, data)
                       IN  /\ us.ret = ut.ret
                           /\ AgreeUpToStale(us.st, ut.st)
                           /\ FinalizeAlike(us.st, ut.st)

\* a state whose buffer holds bytes of an earlier block behind a short tail
C20_Witness ==
    /\ op = "update" /\ ret = "Ok"
    /\ ~state.is_finalized
    /\ state.leftover = 1
    /\ state.working_state.blocks # <<>>
    /\ \A i \in 1..(SHA384_BLOCKSIZE - 1) : state.buffer[i] # 0
    /\ \E junk \in StaleContents : WithStale(state, junk).buffer # state.buffer

\* C14: when a Sha384 state is dropped, fresh, mid-stream or finalized, its
\* working_state, buffer and message_len are all zeros afterwards.
C14_DropZeroizes ==
    op = "drop" =>
        /\ state.working_state = ZeroWords
        /\ \A i \in 0..(SHA384_BLOCKSIZE - 1) : state.buffer[i] = 0
        /\ \A i \in 0..1 : state.message_len[i] = U64Zero

\* a finalized state dropped with a chaining value, a used buffer and a
\* non-zero counter
C14_Witness ==
    /\ op = "drop"
    /\ prev.is_finalized
    /\ prev.working_state.blocks # <<>>
    /\ \E i \in 0..(SHA384_BLOCKSIZE - 1) : prev.buffer[i] # 0
    /\ prev.message_len[1] # U64Zero


\* limbs 1..4 (the low word) and 5..8 (the high word) of a counter value
LowWord(big) == [i \in U64Limbs |-> big[i]]
HighWord(big) == [i \in U64Limbs |-> big[i + 4]]

----------------------------------------------------------------------------
(* Properties of pwhash *)

\* the last call was verify_password_hash, on an envelope hash_password returned
Verified == pw_op = "verify_password_hash" /\ hp_ret = "Ok"

\* the key PBKDF2 derives from the password and the salt region of an envelope
KeyOf(env, password) == derive_key(password, SliceTo(env, 64), 512000, 64).dk

\* C7: verify_password_hash(hash_password(p), p) returns Ok(true), and the
\* verification derives the key from bytes 0..64 of the envelope as salt with
\* the iteration count (512,000) and the length (64) hash_password used.
C7_RoundTrip ==
    (Verified /\ v_expected = envelope /\ v_password = hp_password) =>
        /\ v_ret = "Ok(true)"
        /\ v_derived = <<[password |-> hp_password, salt |-> SliceTo(envelope, 64),
                          iterations |-> 512000, len |-> 64]>>
        /\ v_derived = hp_derived

\* an envelope verified with the password it was made from
C7_Witness ==
    Verified /\ v_expected = envelope /\ v_password = hp_password /\ v_ret = "Ok(true)"

\* C8 as stated: every 128-byte array that differs from the envelope of p, in
\* the salt region, the key region or both, fails to verify with p.
C8_AnyModificationFails ==
    (Verified /\ Len(v_expected) = 128 /\ v_expected # envelope
         /\ v_password = hp_password) =>
        v_ret = "Err(ValidationCryptoError)"

\* C8, amended: a 128-byte array verifies with p exactly when its bytes
\* 64..128 are the key derived from p and its bytes 0..64; in every other
\* case the call returns Err, never Ok(false). So a change of the key region
\* alone fails, and a change that touches the salt region fails unless the
\* key region is the key of the new salt region.
C8_ModificationFailsUnlessRekeyed ==
    (Verified /\ Len(v_expected) = 128 /\ v_password = hp_password) =>
        /\ v_ret \in {"Ok(true)", "Err(ValidationCryptoError)"}
        /\ v_ret = "Ok(true)" <=>
               SliceFrom(v_expected, 64) = KeyOf(v_expected, hp_password)
        /\ (v_expected # envelope /\ SliceTo(v_expected, 64) = SliceTo(envelope, 64))
               => v_ret = "Err(ValidationCryptoError)"

\* the envelope with ten bytes across the salt and the key set to 0x61,
\* rejected with the right password
C8_Witness ==
    /\ Verified
    /\ v_password = hp_password
    /\ v_expected = Overwrite(envelope, 63, 73, Byte(97))
    /\ v_expected # envelope
    /\ v_ret = "Err(ValidationCryptoError)"

\* C9: an expected_hash whose length is not 128 is rejected with the
\* validation error, whatever its content and the password, before any key
\* derivation or comparison.
C9_LengthPolicing ==
    (pw_op = "verify_password_hash" /\ Len(v_expected) # 128) =>
        /\ v_ret = "Err(ValidationCryptoError)"
        /\ v_derived = <<>>
        /\ v_compared = 0

\* the envelope with one byte appended, rejected
C9_Witness ==
    /\ Verified
    /\ Len(v_expected) = 129
    /\ SliceTo(v_expected, 128) = envelope
    /\ v_ret = "Err(ValidationCryptoError)"

\* C10: what hash_password(p) returns is 128 bytes: the 64 bytes the OS RNG
\* delivered in the call, then the 64-byte key derived from p with those
\* bytes as salt at 512,000 iterations.
C10_EnvelopeLayout ==
    hp_ret = "Ok" =>
        /\ Len(envelope) = 128
        /\ SliceTo(envelope, 64) = gen_rand_key(64, hp_rng).dst
        /\ hp_rng.open /\ hp_rng.read
        /\ SliceFrom(envelope, 64)
               = derive_key(hp_password, gen_rand_key(64, hp_rng).dst, 512000, 64).dk
        /\ hp_derived = <<[password |-> hp_password, salt |-> SliceTo(envelope, 64),
                           iterations |-> 512000, len |-> 64]>>

\* hash_password returned an envelope
C10_Witness ==
    pw_op = "hash_password" /\ hp_ret = "Ok" /\ Len(envelope) = 128

\* C21: hash_password never returns Err. A call ends in Ok or in a panic; it
\* panics exactly when the OS RNG cannot be opened or read (the key
\* derivation, called with 512,000 iterations and a 64-byte output, does not
\* fail), and then no array is returned. Every array returned is Ok of 128
\* bytes, 64 from the RNG and 64 from the key derivation, none of them a
\* byte of the zero-initialised array.
C21_HashPasswordNeverErr ==
    pw_op = "hash_password" =>
        /\ hp_ret \in {"Ok", "panic"}
        /\ hp_ret = "panic" <=> (~hp_rng.open \/ ~hp_rng.read)
        /\ hp_ret = "panic" => envelope = <<>>
        /\ hp_ret = "Ok" =>
               /\ Len(envelope) = 128
               /\ \A i \in 1..64 : envelope[i] = secure_rand_bytes(64, hp_rng).dst[i]
               /\ \A i \in 65..128 : envelope[i][1] = "pbkdf2"

\* the OS RNG opens but cannot be read: the call panics and returns nothing
C21_Witness ==
    /\ pw_op = "hash_password"
    /\ hp_rng.open /\ ~hp_rng.read
    /\ hp_ret = "panic"
    /\ envelope = <<>>
----------------------------------------------------------------------------
(* Properties of util *)

\* a and b have the same length and the same bytes
SameBytes(a, b) == Len(a) = Len(b) /\ \A i \in 1..Len(a) : a[i] = b[i]

\* C11: compare_ct(a, b) returns Ok(true) exactly when a and b have the same
\* length and the same contents; otherwise it returns an error, never
\* Ok(false); and compare_ct(b, a) returns what compare_ct(a, b) returns.
C11_CompareCt ==
    u_op = "compare_ct" =>
        /\ ct_ret = "Ok(true)" <=> SameBytes(ct_a, ct_b)
        /\ ~SameBytes(ct_a, ct_b) => ct_ret = "Err(UnknownCryptoError)"
        /\ ct_ret # "Ok(false)"
        /\ compare_ct(ct_b, ct_a) = ct_ret

\* slices of equal length that differ in their last byte only, rejected
C11_Witness ==
    /\ u_op = "compare_ct"
    /\ Len(ct_a) = 2 /\ Len(ct_b) = 2
    /\ ct_a[1] = ct_b[1] /\ ct_a[2] # ct_b[2]
    /\ ct_ret = "Err(UnknownCryptoError)"

\* C12 as stated: for slices of unequal length compare_ct fails with the
\* validation error.
C12_UnequalLengthsValidationError ==
    (u_op = "compare_ct" /\ Len(ct_a) # Len(ct_b)) =>
        ct_ret = "Err(ValidationCryptoError)"

\* C12, amended: for slices of unequal length compare_ct fails with
\* UnknownCryptoError, the error it also returns for a mismatch of contents,
\* not with a boolean.
C12_UnequalLengthsUnknownCryptoError ==
    (u_op = "compare_ct" /\ Len(ct_a) # Len(ct_b)) =>
        ct_ret = "Err(UnknownCryptoError)"

\* a slice compared with a longer one that starts with it (test_ct_ne_reg)
C12_Witness ==
    /\ u_op = "compare_ct"
    /\ Len(ct_a) = 1 /\ Len(ct_b) = 2
    /\ ct_a[1] = ct_b[1]
    /\ ct_ret = "Err(UnknownCryptoError)"

\* C13: gen_rand_key on an empty destination returns UnknownCryptoError
\* without consulting the OS RNG; on a non-empty destination it fills the
\* whole destination and returns Ok, or returns UnknownCryptoError when the
\* RNG cannot be opened or read.
C13_GenRandKey ==
    u_op = "gen_rand_key" =>
        /\ rk_len = 0 => (rk_out.ret = "Err" /\ ~rk_out.consulted)
        /\ (rk_len > 0 /\ rk_rng.open /\ rk_rng.read) =>
               /\ rk_out.ret = "Ok"
               /\ Len(rk_out.dst) = rk_len
               /\ \A i \in 1..rk_len : rk_out.dst[i] = Byte((rk_rng.first + i) % 256)
        /\ (rk_len > 0 /\ ~(rk_rng.open /\ rk_rng.read)) => rk_out.ret = "Err"
        /\ rk_out.ret \in {"Ok", "Err"}

\* an empty destination rejected while the RNG would have delivered
C13_Witness ==
    /\ u_op = "gen_rand_key"
    /\ rk_len = 0
    /\ rk_rng.open /\ rk_rng.read
    /\ rk_out.ret = "Err"
====
